---- MODULE Spec2Model ----
(***************************************************************************)
(* pm2es / pm2os: read newline-delimited JSON flow records from stdin,     *)
(* batch them and index them into Elasticsearch (pm2es.py, one target) or  *)
(* Opensearch (pm2os.py, a list of targets) under the daily index          *)
(* sflow-YYYY.MM.DD, after creating that index and purging old ones.       *)
(*                                                                         *)
(* The scripts are started by pmacct, possibly several at a time: the      *)
(* model runs up to two instances of the script against the same stores.  *)
(* Every HTTP request is one atomic step with the store; its outcome       *)
(* (the store's answer, an error status, or a transport error) is chosen   *)
(* nondeterministically.  A transport error is status 0 in the log.        *)
(***************************************************************************)
EXTENDS Integers, Sequences, FiniteSets, TLC

VARIABLES
    prog,            \* which script runs: "pm2es" or "pm2os"
    BULK_SIZE,       \* configured threshold on len(lines)
    RETENTION_DAYS,  \* configured retention window
    now,             \* datetime.utcnow() read at start, in clock ticks
    stdin,           \* stdin[i]: the lines instance i is fed
    pc,              \* pc[i]: position of instance i in the script
    tgt,             \* tgt[i]: index in TARGETS of the loop `for target in TARGETS`
    pos,             \* pos[i]: number of stdin lines consumed
    lines,           \* lines[i]: the list `lines` (headers and documents)
    rows,            \* rows[i]: listing rows still to be visited by the purge
    out,             \* out[i]: how many messages of each kind were printed
    exc,             \* exc[i]: the uncaught exception that ended the process
    store,           \* store[t]: the indices held by target t
    reqs,            \* every HTTP request issued, in order, with its status
    faults,          \* how many requests the stores have failed so far
    PSEUDONYMIZE,    \* the flag PSEUDONYMIZE of pm2os.py
    clock,           \* the wall clock, in ticks; the scripts read it once
    seen             \* seen[i]: the clock at which each consumed line was read

vars == <<prog, BULK_SIZE, RETENTION_DAYS, now, stdin, pc, tgt, pos, lines,
          rows, out, exc, store, reqs, faults, PSEUDONYMIZE, clock, seen>>

config == <<prog, BULK_SIZE, RETENTION_DAYS, now, stdin, PSEUDONYMIZE, clock>>

-----------------------------------------------------------------------------
(* Bounds of the model *)

MaxLines == 3
MaxBulk == 3
MaxRaceLines == 1
MaxIdx == 2
TicksPerDay == 2
StartDay == 30
MaxFaults == 2
MaxPseudoLines == 1
MaxTicks == 2
MaxClockLines == 2

(* Program constants *)

DefaultBulkSize == 1000
DefaultRetentionDays == 9

Inst == {"a", "b"}

Progs == {"pm2es", "pm2os"}

LineKinds == {"object", "malformed", "nonobject"}

MsgKinds == {"json", "create", "retrieve", "deleted", "delfail", "parse", "send"}

NoExc == "none"

-----------------------------------------------------------------------------
(* Configuration and pure helpers *)

\* pm2es talks to one host; pm2os to the TARGETS list (two entries)
TARGETS == IF prog = "pm2es" THEN <<1>> ELSE <<1, 2>>

AllTargets == {1, 2}

\* strftime('%Y.%m.%d'): the day of the instant, the time of day is dropped
StrfDay(t) == t \div TicksPerDay

\* f"sflow-{now.strftime('%Y.%m.%d')}"
IndexName(t) == [pre |-> "sflow-", sfx |-> <<StrfDay(t)>>]

INDEX_NAME == IndexName(now)

\* a stamp taken from the clock each time it is used
StampAtUse == clock

\* now.strftime('%Y-%m-%dT%H:%M:%S') + 'Z'
TIMESTAMP == now

\* index_name.startswith('sflow-')
StartsWithSflow(name) == name.pre = "sflow-"

\* datetime.strptime(.., '%Y.%m.%d') accepts exactly a date; <<>> is any other suffix
DateParses(name) == Len(name.sfx) = 1

\* the parsed datetime: midnight of the day
StrpTime(name) == name.sfx[1] * TicksPerDay

\* now - timedelta(days=RETENTION_DAYS)
DaysAgo == now - RETENTION_DAYS * TicksPerDay

\* if index_date < days_ago
Expired(index_date, days_ago) == index_date < days_ago

\* index.split()[2] exists
HasNameColumn(row) == row.cols >= 3

\* the bug of creating without looking at the answer of the existence check
CreateUnconditionally(status) == TRUE

\* if response.status_code == 404
NeedsCreate(status) == status = 404

\* if len(lines) >= BULK_SIZE
BufferFull(buf, size) == Len(buf) >= size

\* the JSON values an ip_src / ip_dst field can hold; "absent": no such key.
\* "number" stands for a non-negative integer or a boolean, "other" for null,
\* an array, an object, a float or a negative integer
IpValues == {"ipv4", "ipv6", "notip", "number", "other"}
IpFields == IpValues \cup {"absent"}
IsStr(v) == v \in {"ipv4", "ipv6", "notip"}

\* a field of a document: absent, left as read, or the result of pseudonymize_ip
Absent == [k |-> "absent", of |-> "absent"]
Raw(v) == IF v = "absent" THEN Absent ELSE [k |-> "raw", of |-> v]

\* ipaddress.ip_address(ip): the class of the object built, or ValueError
IpAddress(v) ==
    CASE v \in {"ipv4", "number"} -> "IPv4Address"
      [] v = "ipv6" -> "IPv6Address"
      [] OTHER -> "ValueError"

\* pseudonymize_ipv4 / pseudonymize_ipv6: salt + ip needs ip to be a str, then
\* the address rebuilt from the first bytes of the SHA-256 digest
SaltedHash(v, class) ==
    IF IsStr(v) THEN [k |-> "hash" \o class, of |-> v]
    ELSE [k |-> "TypeError", of |-> v]

\* pseudonymize_ip(ip): only ValueError is caught
PseudonymizeIp(v) ==
    IF IpAddress(v) = "ValueError" THEN [k |-> "Invalid IP: ", of |-> v]
    ELSE SaltedHash(v, IpAddress(v))

\* a rewriting that does not look at the flag nor at the presence of the key
RewrittenAlways(v) == PseudonymizeIp(v)

\* `if PSEUDONYMIZE and "ip_xxx" in json_data: json_data["ip_xxx"] = pseudonymize_ip(...)`
Rewritten(v) ==
    IF PSEUDONYMIZE /\ v # "absent" THEN PseudonymizeIp(v) ELSE Raw(v)

\* json.dumps({"index": {}})
Header == [t |-> "hdr", line |-> 0, ts |-> 0, ip_src |-> Absent, ip_dst |-> Absent]

\* json.dumps(json_data) after json_data["@timestamp"] = TIMESTAMP and the rewriting
Document(line) ==
    [t |-> "doc", line |-> line.n, ts |-> TIMESTAMP,
     ip_src |-> Rewritten(line.ip_src), ip_dst |-> Rewritten(line.ip_dst)]

\* the line feed "\n"
Newline == [t |-> "nl", line |-> 0, ts |-> 0, ip_src |-> Absent, ip_dst |-> Absent]

\* '\n'.join(data)
RECURSIVE Join(_)
Join(data) ==
    IF Len(data) <= 1 THEN data
    ELSE <<Head(data), Newline>> \o Join(Tail(data))

\* a payload without the final line feed
JoinOnly(data) == Join(data)

\* payload = '\n'.join(data) + '\n'
Payload(data) == Join(data) \o <<Newline>>

\* a flush that addresses every request to the first target
FirstTargetOnly(k) == TARGETS[1]

\* the k-th iteration of `for target in TARGETS` in a flush
TargetAt(k) == TARGETS[k]

\* a buffer kept as it is after the sends
ForgetBuffer(buf) == buf

\* `lines = []` after the sends of a full buffer
Cleared(buf) == <<>>

NoBody == <<>>

CatIndices == [pre |-> "_cat/indices", sfx |-> <<>>]

\* body: the payload of a POST, the listing answered to a GET
Req(i, m, t, name, body, status) ==
    [by |-> i, m |-> m, t |-> t, idx |-> name, body |-> body, status |-> status]

Printed(i, kind) == [out EXCEPT ![i][kind] = @ + 1]

Exists(t, name) == \E x \in store[t] : x.name = name

\* what a request may come back with: the store's own answer, or, while the
\* fault budget lasts, an error status (503) or a transport error (0)
Outcomes(answer) == {answer} \cup (IF faults < MaxFaults THEN {503, 0} ELSE {})

Answered(answer, status) ==
    faults' = IF status = answer THEN faults ELSE faults + 1

\* GET /_cat/indices?s=index : one row per index; a closed index has no health column
CatRow(x) == [cols |-> IF x.open THEN 3 ELSE 2, name |-> x.name]

-----------------------------------------------------------------------------
(* The indices a store may hold when the script starts *)

Sflow(d) == [name |-> [pre |-> "sflow-", sfx |-> <<d>>], open |-> TRUE]

Universe ==
    { Sflow(StartDay - 20), Sflow(StartDay - 10), Sflow(StartDay - 9),
      Sflow(StartDay - 8), Sflow(StartDay - 1), Sflow(StartDay),
      [name |-> [pre |-> "sflow-", sfx |-> <<>>], open |-> TRUE],
      [name |-> [pre |-> ".kibana", sfx |-> <<>>], open |-> TRUE],
      [name |-> [pre |-> "archive", sfx |-> <<>>], open |-> FALSE] }

\* the listing is sorted by index name (s=index)
RECURSIVE SortedRows(_)
RankOf(x) ==
    IF x.name.pre = ".kibana" THEN 0
    ELSE IF x.name.pre = "archive" THEN 1
    ELSE IF x.name.sfx = <<>> THEN StartDay + 3
    ELSE 2 + x.name.sfx[1]

SortedRows(S) ==
    IF S = {} THEN <<>>
    ELSE LET x == CHOOSE y \in S : \A z \in S : RankOf(y) <= RankOf(z)
         IN <<CatRow(x)>> \o SortedRows(S \ {x})

-----------------------------------------------------------------------------
(* Control flow between the top-level statements of the script *)

\* after create_index_if_needed for TARGETS[k]: next target, then the purge loop
AfterEnsure(i, k) ==
    IF k < Len(TARGETS)
    THEN /\ pc' = [pc EXCEPT ![i] = "head"]
         /\ tgt' = [tgt EXCEPT ![i] = k + 1]
    ELSE /\ pc' = [pc EXCEPT ![i] = "get"]
         /\ tgt' = [tgt EXCEPT ![i] = 1]

\* after purge_old_indices for TARGETS[k]: next target, then the stdin loop
AfterPurge(i, k) ==
    IF k < Len(TARGETS)
    THEN /\ pc' = [pc EXCEPT ![i] = "get"]
         /\ tgt' = [tgt EXCEPT ![i] = k + 1]
    ELSE /\ pc' = [pc EXCEPT ![i] = "read"]
         /\ tgt' = [tgt EXCEPT ![i] = 1]

\* an exception nobody catches: traceback, the interpreter exits
Crash(i, e) ==
    /\ pc' = [pc EXCEPT ![i] = "crashed"]
    /\ exc' = [exc EXCEPT ![i] = e]

-----------------------------------------------------------------------------
(* create_index_if_needed: requests.head, outside any try *)

HeadIndex(i) ==
    /\ pc[i] = "head"
    /\ LET t == TARGETS[tgt[i]]
           truth == IF Exists(t, INDEX_NAME) THEN 200 ELSE 404
       IN \E status \in Outcomes(truth) :
            /\ reqs' = Append(reqs, Req(i, "HEAD", t, INDEX_NAME, NoBody, status))
            /\ Answered(truth, status)
            /\ IF status = 0
               THEN /\ Crash(i, "ConnectionError")
                    /\ UNCHANGED tgt
               ELSE /\ IF NeedsCreate(status)
                       THEN /\ pc' = [pc EXCEPT ![i] = "put"]
                            /\ UNCHANGED tgt
                       ELSE AfterEnsure(i, tgt[i])
                    /\ UNCHANGED exc
    /\ UNCHANGED <<config, pos, seen, lines, rows, out, store>>

(* requests.put + raise_for_status inside try/except RequestException *)

PutIndex(i) ==
    /\ pc[i] = "put"
    /\ LET t == TARGETS[tgt[i]]
           truth == IF Exists(t, INDEX_NAME) THEN 400 ELSE 200
       IN \E status \in Outcomes(truth) :
            /\ reqs' = Append(reqs, Req(i, "PUT", t, INDEX_NAME, NoBody, status))
            /\ Answered(truth, status)
            /\ IF status = 200
               THEN /\ store' = [store EXCEPT ![t] = @ \cup {[name |-> INDEX_NAME, open |-> TRUE]}]
                    /\ UNCHANGED out
               ELSE /\ out' = Printed(i, "create")
                    /\ UNCHANGED store
    /\ AfterEnsure(i, tgt[i])
    /\ UNCHANGED <<config, pos, seen, lines, rows, exc>>

-----------------------------------------------------------------------------
(* purge_old_indices *)

\* requests.get + raise_for_status + splitlines, inside the outer try
ListIndices(i) ==
    /\ pc[i] = "get"
    /\ LET t == TARGETS[tgt[i]]
           listing == SortedRows(store[t])
       IN \E status \in Outcomes(200) :
            /\ reqs' = Append(reqs, Req(i, "GET", t, CatIndices,
                                        IF status = 200 THEN listing ELSE NoBody, status))
            /\ Answered(200, status)
            /\ IF status = 200
               THEN /\ rows' = [rows EXCEPT ![i] = listing]
                    /\ pc' = [pc EXCEPT ![i] = "rows"]
                    /\ UNCHANGED <<tgt, out>>
               ELSE /\ out' = Printed(i, "retrieve")
                    /\ AfterPurge(i, tgt[i])
                    /\ UNCHANGED rows
    /\ UNCHANGED <<config, pos, seen, lines, exc, store>>

\* the listing is exhausted: the function returns
PurgeDone(i) ==
    /\ pc[i] = "rows"
    /\ rows[i] = <<>>
    /\ AfterPurge(i, tgt[i])
    /\ UNCHANGED <<config, pos, seen, lines, rows, out, exc, store, reqs, faults>>

\* f"https://{OPENSEARCH_HOST}:{OPENSEARCH_PORT}/{index_name}" in pm2os.py:
\* neither name is defined anywhere, so building the URL raises NameError
DeleteUrlDefined == prog = "pm2es"

\* one iteration of `for index in indices`
PurgeRow(i) ==
    /\ pc[i] = "rows"
    /\ rows[i] # <<>>
    /\ LET t == TARGETS[tgt[i]]
           row == Head(rows[i])
           rest == Tail(rows[i])
           skip == /\ rows' = [rows EXCEPT ![i] = rest]
                   /\ UNCHANGED <<pc, tgt, exc, store, reqs, faults>>
       IN IF ~HasNameColumn(row)
          THEN \* index.split()[2]: IndexError, caught by nobody
               /\ Crash(i, "IndexError")
               /\ UNCHANGED <<tgt, rows, out, store, reqs, faults>>
          ELSE IF ~StartsWithSflow(row.name)
          THEN skip /\ UNCHANGED out
          ELSE IF ~DateParses(row.name)
          THEN \* strptime raises ValueError, caught by the inner except
               skip /\ out' = Printed(i, "parse")
          ELSE IF ~Expired(StrpTime(row.name), DaysAgo)
          THEN skip /\ UNCHANGED out
          ELSE IF ~DeleteUrlDefined
          THEN /\ Crash(i, "NameError")
               /\ UNCHANGED <<tgt, rows, out, store, reqs, faults>>
          ELSE LET truth == IF Exists(t, row.name) THEN 200 ELSE 404
               IN \E status \in Outcomes(truth) :
                    /\ reqs' = Append(reqs, Req(i, "DELETE", t, row.name, NoBody, status))
                    /\ Answered(truth, status)
                    /\ IF status = 0
                       THEN \* RequestException: caught by the outer except, the sweep ends
                            /\ out' = Printed(i, "retrieve")
                            /\ AfterPurge(i, tgt[i])
                            /\ UNCHANGED <<rows, store>>
                       ELSE /\ rows' = [rows EXCEPT ![i] = rest]
                            /\ UNCHANGED <<pc, tgt>>
                            /\ IF status = 200
                               THEN /\ out' = Printed(i, "deleted")
                                    /\ store' = [store EXCEPT ![t] = {x \in @ : x.name # row.name}]
                               ELSE /\ out' = Printed(i, "delfail")
                                    /\ UNCHANGED store
                    /\ UNCHANGED exc
    /\ UNCHANGED <<config, pos, seen, lines>>

-----------------------------------------------------------------------------
(* The stdin loop *)

\* one iteration of `for line in sys.stdin`, up to and including the length test
ReadLine(i) ==
    /\ pc[i] = "read"
    /\ pos[i] < Len(stdin[i])
    /\ LET line == stdin[i][pos[i] + 1]
       IN /\ pos' = [pos EXCEPT ![i] = @ + 1]
          /\ seen' = [seen EXCEPT ![i] = Append(@, clock)]
          /\ IF line.kind = "malformed"
             THEN \* json.loads raises JSONDecodeError: print, continue
                  /\ out' = Printed(i, "json")
                  /\ UNCHANGED <<pc, tgt, lines, exc>>
             ELSE IF line.kind = "nonobject"
             THEN \* json_data["@timestamp"] = ... on a non-dict: TypeError
                  /\ Crash(i, "TypeError")
                  /\ UNCHANGED <<tgt, lines, out>>
             ELSE IF \/ Rewritten(line.ip_dst).k = "TypeError"
                     \/ Rewritten(line.ip_src).k = "TypeError"
             THEN \* salt + ip on a value that is not a str: TypeError
                  /\ Crash(i, "TypeError")
                  /\ UNCHANGED <<tgt, lines, out>>
             ELSE LET buf == lines[i] \o <<Header, Document(line)>>
                  IN /\ lines' = [lines EXCEPT ![i] = buf]
                     /\ IF BufferFull(buf, BULK_SIZE)
                        THEN /\ pc' = [pc EXCEPT ![i] = "send"]
                             /\ tgt' = [tgt EXCEPT ![i] = 1]
                        ELSE UNCHANGED <<pc, tgt>>
                     /\ UNCHANGED <<out, exc>>
    /\ UNCHANGED <<config, rows, store, reqs, faults>>

\* stdin is exhausted: `if lines:` then the last sends, else the script ends
EndOfInput(i) ==
    /\ pc[i] = "read"
    /\ pos[i] = Len(stdin[i])
    /\ IF lines[i] # <<>>
       THEN /\ pc' = [pc EXCEPT ![i] = "lastsend"]
            /\ tgt' = [tgt EXCEPT ![i] = 1]
       ELSE /\ pc' = [pc EXCEPT ![i] = "done"]
            /\ UNCHANGED tgt
    /\ UNCHANGED <<config, pos, seen, lines, rows, out, exc, store, reqs, faults>>

\* send_to_elasticsearch(lines) / send_to_opensearch(lines, target): requests.post
\* outside any try; a 200 lets the store create the index if it is missing
Send(i) ==
    /\ pc[i] \in {"send", "lastsend"}
    /\ LET t == TargetAt(tgt[i])
       IN \E status \in Outcomes(200) :
            /\ reqs' = Append(reqs, Req(i, "POST", t, INDEX_NAME, Payload(lines[i]), status))
            /\ Answered(200, status)
            /\ IF status = 0
               THEN /\ Crash(i, "ConnectionError")
                    /\ UNCHANGED <<tgt, lines, out, store>>
               ELSE /\ IF status = 200
                       THEN /\ store' = [store EXCEPT ![t] = @ \cup {[name |-> INDEX_NAME, open |-> TRUE]}]
                            /\ UNCHANGED out
                       ELSE /\ out' = Printed(i, "send")
                            /\ UNCHANGED store
                    /\ IF tgt[i] < Len(TARGETS)
                       THEN /\ tgt' = [tgt EXCEPT ![i] = @ + 1]
                            /\ UNCHANGED <<pc, lines>>
                       ELSE /\ tgt' = [tgt EXCEPT ![i] = 1]
                            /\ IF pc[i] = "send"
                               THEN /\ lines' = [lines EXCEPT ![i] = Cleared(@)]
                                    /\ pc' = [pc EXCEPT ![i] = "read"]
                               ELSE /\ pc' = [pc EXCEPT ![i] = "done"]
                                    /\ UNCHANGED lines
                    /\ UNCHANGED exc
    /\ UNCHANGED <<config, pos, seen, rows>>

-----------------------------------------------------------------------------
(* Specifications *)

\* streams of at most n lines; each line carries its serial number as content
Streams(n) ==
    UNION { [1..k -> LineKinds] : k \in 0..n }

Numbered(ks) ==
    [p \in DOMAIN ks |-> [kind |-> ks[p], n |-> p, ip_src |-> "absent", ip_dst |-> "absent"]]

StartedPc(running) == [i \in Inst |-> IF i \in running THEN "head" ELSE "off"]

InitProc(running) ==
    /\ pc = StartedPc(running)
    /\ tgt = [i \in Inst |-> 1]
    /\ pos = [i \in Inst |-> 0]
    /\ seen = [i \in Inst |-> <<>>]
    /\ clock = now
    /\ lines = [i \in Inst |-> <<>>]
    /\ rows = [i \in Inst |-> <<>>]
    /\ out = [i \in Inst |-> [k \in MsgKinds |-> 0]]
    /\ exc = [i \in Inst |-> NoExc]
    /\ reqs = <<>>
    /\ faults = 0

Step(i) ==
    \/ HeadIndex(i)
    \/ PutIndex(i)
    \/ ListIndices(i)
    \/ PurgeRow(i)
    \/ PurgeDone(i)
    \/ ReadLine(i)
    \/ EndOfInput(i)
    \/ Send(i)

Next == \E i \in Inst : Step(i)

\* One instance, every stream and bulk size; today's index exists or not.
Init ==
    /\ prog \in Progs
    /\ BULK_SIZE \in (1..MaxBulk) \cup {DefaultBulkSize}
    /\ RETENTION_DAYS = DefaultRetentionDays
    /\ PSEUDONYMIZE = FALSE
    /\ now = StartDay * TicksPerDay + 1
    /\ \E ks \in Streams(MaxLines) :
         stdin = [i \in Inst |-> IF i = "a" THEN Numbered(ks) ELSE <<>>]
    /\ \E S \in {{}, {Sflow(StartDay)}} : store = [t \in AllTargets |-> S]
    /\ InitProc({"a"})

Spec == Init /\ [][Next]_vars

\* One instance, short streams; every store content, clock and retention window.
ExampleIndices ==
    { Sflow(StartDay - 20), Sflow(StartDay - 10), Sflow(StartDay - 8), Sflow(StartDay - 1) }

StoreContents ==
    { S \in SUBSET Universe : Cardinality(S) <= MaxIdx } \cup {ExampleIndices}

RetentionChoices == {0, DefaultRetentionDays}

InitPurge ==
    /\ prog \in Progs
    /\ BULK_SIZE = DefaultBulkSize
    /\ RETENTION_DAYS \in RetentionChoices
    /\ PSEUDONYMIZE = FALSE
    /\ \E tod \in 0..(TicksPerDay - 1) : now = StartDay * TicksPerDay + tod
    /\ \E ks \in {<<>>, <<"object">>} :
         stdin = [i \in Inst |-> IF i = "a" THEN Numbered(ks) ELSE <<>>]
    /\ \E S \in StoreContents :
         \E S2 \in (IF prog = "pm2os" THEN {{}, S} ELSE {{}}) :
            store = [t \in AllTargets |-> IF t = 1 THEN S ELSE S2]
    /\ InitProc({"a"})

SpecPurge == InitPurge /\ [][Next]_vars

\* Two instances started against the same stores, each fed a short stream of records.
InitRace ==
    /\ prog \in Progs
    /\ BULK_SIZE = DefaultBulkSize
    /\ RETENTION_DAYS = DefaultRetentionDays
    /\ PSEUDONYMIZE = FALSE
    /\ now = StartDay * TicksPerDay + 1
    /\ stdin \in [Inst -> { Numbered([p \in 1..k |-> "object"]) : k \in 0..MaxRaceLines }]
    /\ \E S \in {{}, {Sflow(StartDay)}} : store = [t \in AllTargets |-> S]
    /\ InitProc(Inst)

\* pm2os fed short streams of records with every kind of ip_src, and an ip_dst
\* that is absent, an address, a number or another non-string; pseudonymization
\* enabled or not.
DstChoices == {"absent", "ipv4", "number", "other"}

AddressStreams(n) ==
    UNION { [1..k -> [kind : {"object"}, src : IpFields, dst : DstChoices]] : k \in 0..n }

Addressed(ls) ==
    [p \in DOMAIN ls |->
        [kind |-> ls[p].kind, n |-> p, ip_src |-> ls[p].src, ip_dst |-> ls[p].dst]]

InitPseudo ==
    /\ prog = "pm2os"
    /\ BULK_SIZE = DefaultBulkSize
    /\ RETENTION_DAYS = DefaultRetentionDays
    /\ PSEUDONYMIZE \in BOOLEAN
    /\ now = StartDay * TicksPerDay + 1
    /\ \E ls \in AddressStreams(MaxPseudoLines) :
         stdin = [i \in Inst |-> IF i = "a" THEN Addressed(ls) ELSE <<>>]
    /\ store = [t \in AllTargets |-> {}]
    /\ InitProc({"a"})

SpecPseudo == InitPseudo /\ [][Next]_vars

\* time passes while the script runs
Tick ==
    /\ clock < now + MaxTicks
    /\ clock' = clock + 1
    /\ UNCHANGED <<prog, BULK_SIZE, RETENTION_DAYS, now, stdin, PSEUDONYMIZE, pc, tgt,
                   pos, seen, lines, rows, out, exc, store, reqs, faults>>

\* One instance fed records while the clock advances, into the next day; a
\* flush after each record, or one flush at the end.
InitClock ==
    /\ prog \in Progs
    /\ BULK_SIZE \in {2, DefaultBulkSize}
    /\ RETENTION_DAYS = DefaultRetentionDays
    /\ PSEUDONYMIZE = FALSE
    /\ now = StartDay * TicksPerDay + (TicksPerDay - 1)
    /\ \E k \in 0..MaxClockLines :
         stdin = [i \in Inst |-> IF i = "a" THEN Numbered([p \in 1..k |-> "object"]) ELSE <<>>]
    /\ store = [t \in AllTargets |-> {}]
    /\ InitProc({"a"})

NextClock == Next \/ Tick

SpecClock == InitClock /\ [][NextClock]_vars

\* the two instances interleave their create_index_if_needed steps
NextEnsure == \E i \in Inst : HeadIndex(i) \/ PutIndex(i)

SpecRace == InitRace /\ [][NextEnsure]_vars

-----------------------------------------------------------------------------
(* Reading the request log *)

Running == {i \in Inst : pc[i] # "off"}

Posts(i, t) == SelectSeq(reqs, LAMBDA r : r.by = i /\ r.m = "POST" /\ r.t = t)

Docs(body) == SelectSeq(body, LAMBDA e : e.t = "doc")

RECURSIVE DocsOfAll(_)
DocsOfAll(posts) ==
    IF posts = <<>> THEN <<>>
    ELSE Docs(Head(posts).body) \o DocsOfAll(Tail(posts))

\* the documents handed to target t by instance i, in send order
SentDocs(i, t) == DocsOfAll(Posts(i, t))

ObjectLines(i) == SelectSeq(stdin[i], LAMBDA l : l.kind = "object")

\* the records of the stream, stamped, in input order
ParsedRecords(i) == [p \in 1..Len(ObjectLines(i)) |-> Document(ObjectLines(i)[p])]

NoOfKind(i, kind) == \A p \in 1..Len(stdin[i]) : stdin[i][p].kind # kind

CountKind(i, kind, upto) == Cardinality({p \in 1..upto : stdin[i][p].kind = kind})

LastReqIsPost(i) ==
    LET mine == SelectSeq(reqs, LAMBDA r : r.by = i)
    IN mine # <<>> /\ mine[Len(mine)].m = "POST"

\* instance i got as far as the stdin loop
ReachedLoop(i) ==
    \/ pc[i] \in {"read", "send", "lastsend", "done"}
    \/ pc[i] = "crashed" /\ (exc[i] = "TypeError" \/ LastReqIsPost(i))

Ended(i) == pc[i] \in {"done", "crashed"}

TargetSet == {TARGETS[k] : k \in 1..Len(TARGETS)}

-----------------------------------------------------------------------------
(* Claims about batching and the stdin loop, checked under Spec *)

CeilDiv(n, b) == (n + b - 1) \div b

FlushSizes(i) ==
    [k \in 1..Len(Posts(i, 1)) |-> Len(Docs(Posts(i, 1)[k].body))]

ExpectedSizes(n, b) ==
    [k \in 1..CeilDiv(n, b) |-> IF k < CeilDiv(n, b) THEN b ELSE n - (CeilDiv(n, b) - 1) * b]

\* C1: a run over N object lines with bulk size B ends after exactly ceil(N/B)
\* flushes, each of B records but the last, which carries the remainder.
C1_FlushCount ==
    \A i \in Running :
        (pc[i] = "done" /\ NoOfKind(i, "malformed") /\ NoOfKind(i, "nonobject"))
            => FlushSizes(i) = ExpectedSizes(Len(stdin[i]), BULK_SIZE)

\* C2: when the process has ended and every bulk request was answered with an
\* HTTP status, each target was handed exactly the records of the stream, in
\* input order, none dropped, duplicated or left in the buffer.
C2_NoRecordLost ==
    \A i \in Running :
        (Ended(i) /\ ReachedLoop(i) /\ \A t \in TargetSet :
                      \A k \in 1..Len(Posts(i, t)) : Posts(i, t)[k].status # 0)
            => \A t \in TargetSet : SentDocs(i, t) = ParsedRecords(i)

\* C3: whatever the stream, as long as no request is lost in transport the loop
\* reports each line that fails to parse once and keeps the process running, and
\* a finished run has ingested the n-k other lines.
C3_ParseFailureSkipped ==
    \A i \in Running :
        (ReachedLoop(i) /\ exc[i] # "ConnectionError") =>
            /\ out[i]["json"] = CountKind(i, "malformed", pos[i])
            /\ pc[i] # "crashed"
            /\ pc[i] = "done" =>
                  Len(SentDocs(i, 1)) = Len(stdin[i]) - CountKind(i, "malformed", Len(stdin[i]))

\* C4: right after a line that is valid JSON but no object was consumed, the
\* loop goes on reading: the line is dropped and the process is alive.
C4_NonObjectSkipped ==
    \A i \in Running :
        (pos[i] > 0 /\ stdin[i][pos[i]].kind = "nonobject")
            => (pc[i] = "read" /\ exc[i] = NoExc)

\* C5: in pm2os every batch posted to the first target is then posted to the
\* second, or is about to be, whatever the first target answered.
C5_EveryTargetAttempted ==
    prog = "pm2os" =>
        \A p \in 1..Len(reqs) :
            (reqs[p].m = "POST" /\ reqs[p].t = TARGETS[1]) =>
                \/ \E q \in (p + 1)..Len(reqs) :
                      /\ reqs[q].m = "POST" /\ reqs[q].by = reqs[p].by
                      /\ reqs[q].t = TARGETS[2] /\ reqs[q].body = reqs[p].body
                \/ pc[reqs[p].by] \in {"send", "lastsend"} /\ tgt[reqs[p].by] = 2

\* C6: over a stream of records and malformed lines, no outcome of a bulk
\* submission ends the process: it never crashes in the loop, and once done
\* every record has been submitted.
C6_SendFailureNotFatal ==
    \A i \in Running :
        (ReachedLoop(i) /\ NoOfKind(i, "nonobject")) =>
            /\ pc[i] # "crashed"
            /\ pc[i] = "done" => \A t \in TargetSet : SentDocs(i, t) = ParsedRecords(i)


-----------------------------------------------------------------------------
(* Claims about the purge and the startup order, checked under SpecPurge *)

\* the purge of TARGETS[k] by instance i is behind it
PurgeOver(i, k) ==
    \/ pc[i] \in {"read", "send", "lastsend", "done", "crashed"}
    \/ pc[i] \in {"get", "rows"} /\ tgt[i] > k

Deleted(i, t) ==
    {reqs[p].idx : p \in {q \in 1..Len(reqs) :
                            reqs[q].m = "DELETE" /\ reqs[q].by = i /\ reqs[q].t = t}}

RowNames(listing) == {listing[p].name : p \in 1..Len(listing)}

\* the names of a listing that the retention rule designates
Designated(listing) ==
    {n \in RowNames(listing) :
        StartsWithSflow(n) /\ DateParses(n) /\ StrpTime(n) < DaysAgo}

ExampleNames == {x.name : x \in ExampleIndices}

\* C7: once the purge of a target is over, the store having returned a listing
\* of well-formed rows and answered every delete, the deletes issued to that
\* target are exactly the sflow- indices of the listing dated before
\* now - RETENTION_DAYS; for the listing D-20, D-10, D-8, D-1 and 9 days these
\* are D-20 and D-10.
C7_PurgeDeletesExpired ==
    \A i \in Running : \A k \in 1..Len(TARGETS) :
        \A p \in 1..Len(reqs) :
            (/\ reqs[p].m = "GET" /\ reqs[p].by = i /\ reqs[p].t = TARGETS[k]
             /\ reqs[p].status = 200
             /\ \A r \in 1..Len(reqs[p].body) : HasNameColumn(reqs[p].body[r])
             /\ \A q \in 1..Len(reqs) : reqs[q].m = "DELETE" => reqs[q].status # 0
             /\ PurgeOver(i, k))
            => /\ Deleted(i, TARGETS[k]) = Designated(reqs[p].body)
               /\ (/\ RETENTION_DAYS = DefaultRetentionDays
                   /\ RowNames(reqs[p].body) \ {INDEX_NAME} = ExampleNames)
                      => Deleted(i, TARGETS[k]) =
                            {Sflow(StartDay - 20).name, Sflow(StartDay - 10).name}

Before(m1, m2, i, t) ==
    \A p \in 1..Len(reqs) :
        (reqs[p].m = m2 /\ reqs[p].by = i /\ reqs[p].t = t) =>
            \E q \in 1..(p - 1) : reqs[q].m = m1 /\ reqs[q].by = i /\ reqs[q].t = t

CountReqs(m, i, t) ==
    Cardinality({p \in 1..Len(reqs) : reqs[p].m = m /\ reqs[p].by = i /\ reqs[p].t = t})

\* C8: in a run that has reached the stdin loop, for each target the listing of
\* the purge was requested before the existence check of today's index, both
\* were requested before any bulk submission, and the purge ran exactly once.
C8_PurgeBeforeEnsure ==
    \A i \in Running :
        pc[i] \in {"read", "send", "lastsend", "done"} =>
            \A t \in TargetSet :
                /\ Before("GET", "HEAD", i, t)
                /\ \A u \in TargetSet : Before("GET", "POST", i, u) /\ Before("HEAD", "POST", i, u)
                /\ CountReqs("GET", i, t) = 1

-----------------------------------------------------------------------------
(* Claims about create_index_if_needed run twice, checked under SpecRace *)

\* the requests target t received, in order
TLog(t) == SelectSeq(reqs, LAMBDA r : r.t = t)

\* L[p] ends a create_index_if_needed that found or made the index
EnsuredAt(L, p) ==
    \/ L[p].m = "HEAD" /\ L[p].status = 200
    \/ L[p].m = "PUT" /\ L[p].status = 200

\* L[p+1] is the existence check of another instance, answered by the store
ThenChecked(L, p) ==
    /\ p + 1 <= Len(L)
    /\ L[p + 1].m = "HEAD" /\ L[p + 1].by # L[p].by
    /\ L[p + 1].status \in {200, 404}

FailedPutsElsewhere(i, t) ==
    Cardinality({p \in 1..Len(reqs) :
        reqs[p].m = "PUT" /\ reqs[p].by = i /\ reqs[p].t # t /\ reqs[p].status # 200})

\* C9: when a target has served one instance's create_index_if_needed, which
\* found or created today's index, and next the existence check of a second
\* instance, then the second check finds the index, the second instance sends
\* that target no create and prints no creation error for it, and the target
\* holds exactly one index of that name.
C9_EnsureIdempotent ==
    \A t \in TargetSet :
        LET L == TLog(t)
        IN \A p \in 1..Len(L) :
            (EnsuredAt(L, p) /\ ThenChecked(L, p)) =>
                LET j == L[p + 1].by
                IN /\ L[p + 1].status = 200
                   /\ CountReqs("PUT", j, t) = 0
                   /\ out[j]["create"] = FailedPutsElsewhere(j, t)
                   /\ Cardinality({x \in store[t] : x.name = INDEX_NAME}) = 1

\* a first run created the index, a second run checked it and has gone on
C9_Witness ==
    \E t \in TargetSet :
        LET L == TLog(t)
        IN \E p \in 1..Len(L) :
            /\ L[p].m = "PUT" /\ L[p].status = 200 /\ ThenChecked(L, p)
            /\ pc[L[p + 1].by] = "get"

\* C10: an instance whose create was answered "already exists" (400) because
\* the other instance created the index first prints no error for it and goes
\* on; the target holds exactly one index of that name.
C10_DuplicateCreateIsSuccess ==
    \A p \in 1..Len(reqs) :
        (reqs[p].m = "PUT" /\ reqs[p].status = 400) =>
            LET j == reqs[p].by
                t == reqs[p].t
            IN /\ out[j]["create"] = FailedPutsElsewhere(j, t)
               /\ pc[j] # "crashed"
               /\ Cardinality({x \in store[t] : x.name = INDEX_NAME}) = 1

-----------------------------------------------------------------------------
(* More claims about the purge and the startup, checked under SpecPurge *)

\* the listing answered to instance i by target t, if any
Listings(i, t) ==
    {reqs[p].body : p \in {q \in 1..Len(reqs) :
        reqs[q].m = "GET" /\ reqs[q].by = i /\ reqs[q].t = t /\ reqs[q].status = 200}}

LastReqBy(i) ==
    LET mine == SelectSeq(reqs, LAMBDA r : r.by = i)
    IN mine[Len(mine)]

HasReq(i) == \E p \in 1..Len(reqs) : reqs[p].by = i

\* C11: in pm2es, once the sweep of a listing is over, every expired sflow-
\* index of the listing has had its delete attempt, whatever happened to the
\* other rows (a failed delete, an unparseable date, a row without a name
\* column), and no row has ended the process.
C11_SweepIndependent ==
    prog = "pm2es" =>
        \A i \in Running : \A k \in 1..Len(TARGETS) :
            \A L \in Listings(i, TARGETS[k]) :
                PurgeOver(i, k) =>
                    /\ Designated(L) \subseteq Deleted(i, TARGETS[k])
                    /\ exc[i] # "IndexError"

\* C12: a failed existence check or create (transport error or error status)
\* never ends the process, and each such failure is printed.
C12_EnsureFailureNotFatal ==
    \A i \in Running :
        /\ ~(/\ pc[i] = "crashed" /\ exc[i] = "ConnectionError"
             /\ HasReq(i) /\ LastReqBy(i).m \in {"HEAD", "PUT"})
        /\ out[i]["create"] >=
              Cardinality({p \in 1..Len(reqs) :
                  /\ reqs[p].by = i /\ reqs[p].m \in {"HEAD", "PUT"}
                  /\ reqs[p].status \notin {200, 404}})

\* C17: whatever the retention window and the start time, a run never sends a
\* delete for the index it is about to write to, which it has just checked or
\* created.
C17_OwnIndexNotPurged ==
    \A p \in 1..Len(reqs) :
        reqs[p].m = "DELETE" =>
            \/ reqs[p].idx # INDEX_NAME
            \/ ~\E q \in 1..(p - 1) :
                  /\ reqs[q].m \in {"HEAD", "PUT"} /\ reqs[q].by = reqs[p].by
                  /\ reqs[q].t = reqs[p].t

\* C18: in pm2os, once the purge of a target is over, each expired index that
\* target listed has had a delete addressed to that same target, and the purge
\* did not stop on building the address.
C18_DeleteAddressedToTarget ==
    prog = "pm2os" =>
        \A i \in Running : \A k \in 1..Len(TARGETS) :
            \A L \in Listings(i, TARGETS[k]) :
                (PurgeOver(i, k) /\ \A r \in 1..Len(L) : HasNameColumn(L[r])) =>
                    /\ exc[i] # "NameError"
                    /\ \A n \in Designated(L) :
                          \E p \in 1..Len(reqs) :
                              /\ reqs[p].m = "DELETE" /\ reqs[p].by = i
                              /\ reqs[p].idx = n /\ reqs[p].t = TARGETS[k]

-----------------------------------------------------------------------------
(* Claims about the flushes, checked under Spec *)

\* every bulk request of instance i, in the order issued
AllPosts(i) == SelectSeq(reqs, LAMBDA r : r.by = i /\ r.m = "POST")

\* the documents of the object lines consumed so far, in input order
ConsumedDocs(i) ==
    LET read == SelectSeq(SubSeq(stdin[i], 1, pos[i]), LAMBDA l : l.kind = "object")
    IN [p \in 1..Len(read) |-> Document(read[p])]

\* the documents target number k is still owed by instance i
Pending(i, k) ==
    IF pc[i] = "done" \/ (pc[i] \in {"send", "lastsend"} /\ k < tgt[i])
    THEN <<>>
    ELSE Docs(lines[i])

\* C14: as long as every bulk request got an answer, each target has been
\* sent each consumed record exactly once, in one request per flush: what was
\* sent plus what is still buffered is the consumed records, without repetition,
\* whatever the status of the answers; after a flush the buffer holds none of
\* the records of the batch.
C14_OneRequestPerFlush ==
    \A i \in Running : \A k \in 1..Len(TARGETS) :
        exc[i] = NoExc =>
            /\ SentDocs(i, TARGETS[k]) \o Pending(i, k) = ConsumedDocs(i)
            /\ \A p \in 1..Len(Posts(i, TARGETS[k])) :
                  Docs(Posts(i, TARGETS[k])[p].body) # <<>>

\* a batch was answered with an error status and a later batch went to the same target
C14_Witness ==
    \E i \in Running : \E p, q \in 1..Len(AllPosts(i)) :
        /\ p < q
        /\ AllPosts(i)[p].t = AllPosts(i)[q].t
        /\ AllPosts(i)[p].status \notin {0, 200}
        /\ pc[i] = "done"

\* C15: in pm2os the bulk requests go to the targets in turn, in configured
\* order, each group of requests carrying the payload of its first request:
\* batch k reaches every target before batch k+1 reaches any.
C15_SameBatchesInOrder ==
    prog = "pm2os" =>
        \A i \in Running :
            LET P == AllPosts(i)
                n == Len(TARGETS)
            IN \A p \in 1..Len(P) :
                  /\ P[p].t = TARGETS[((p - 1) % n) + 1]
                  /\ P[p].body = P[p - ((p - 1) % n)].body

\* two different batches were sent to both targets
C15_Witness ==
    /\ prog = "pm2os"
    /\ \E i \in Running :
          /\ Len(AllPosts(i)) >= 2 * Len(TARGETS)
          /\ AllPosts(i)[1].body # AllPosts(i)[Len(TARGETS) + 1].body

WellPaired(buf) ==
    /\ Len(buf) % 2 = 0
    /\ \A p \in 1..Len(buf) :
          IF p % 2 = 1 THEN buf[p] = Header ELSE buf[p].t = "doc"

\* header, line feed, document, line feed, and so on
WireFormat(body) ==
    /\ Len(body) > 0
    /\ Len(body) % 4 = 0
    /\ \A p \in 1..Len(body) :
          CASE p % 4 = 1 -> body[p] = Header
            [] p % 4 = 3 -> body[p].t = "doc"
            [] OTHER -> body[p] = Newline

\* C16: the buffer always alternates a header with a document, and every bulk
\* payload is a non-empty run of header line, document line, each ended by a
\* line feed; a rejected line adds nothing to the buffer.
C16_HeaderPerDocument ==
    \A i \in Running :
        /\ WellPaired(lines[i])
        /\ \A p \in 1..Len(AllPosts(i)) : WireFormat(AllPosts(i)[p].body)

\* a line was rejected while the buffer held a record, and the batch was sent later
C16_Witness ==
    \E i \in Running :
        /\ out[i]["json"] >= 1
        /\ Len(stdin[i]) >= 3
        /\ stdin[i][1].kind = "object" /\ stdin[i][2].kind = "malformed"
        /\ \E p \in 1..Len(AllPosts(i)) : Len(Docs(AllPosts(i)[p].body)) >= 2

-----------------------------------------------------------------------------
(* Claims about pseudonymization, checked under SpecPseudo *)

\* every document instance i has produced: buffered or sent
Produced(i) ==
    {lines[i][p] : p \in {q \in 1..Len(lines[i]) : lines[i][q].t = "doc"}}
    \cup UNION { {AllPosts(i)[p].body[q] :
                    q \in {x \in 1..Len(AllPosts(i)[p].body) : AllPosts(i)[p].body[x].t = "doc"}}
                : p \in 1..Len(AllPosts(i)) }

NotAnAddress(v) == v \in IpValues \ {"ipv4", "ipv6"}

\* C13: with pseudonymization on, every record read so far has its document
\* buffered or sent, with each ip_src / ip_dst that is not an IPv4 or IPv6
\* address replaced by the invalid-input marker, whatever its JSON type; no
\* exception ends the process on such a value.
C13_InvalidIpMarked ==
    PSEUDONYMIZE =>
        \A i \in Running :
            /\ exc[i] # "TypeError"
            /\ \A p \in 1..pos[i] :
                  \E d \in Produced(i) :
                      /\ d.line = p
                      /\ NotAnAddress(stdin[i][p].ip_src) => d.ip_src.k = "Invalid IP: "
                      /\ NotAnAddress(stdin[i][p].ip_dst) => d.ip_dst.k = "Invalid IP: "

FieldKept(given, made) ==
    IF PSEUDONYMIZE /\ given # "absent"
    THEN made.k \notin {"raw", "absent"} /\ made.of = given
    ELSE made = Raw(given)

\* C19: each document produced is its input record stamped with @timestamp,
\* where only an ip_src / ip_dst that is present has been rewritten, and only
\* when pseudonymization is on: an absent field stays absent, the rest of
\* the record is kept.
C19_OnlyPresentIpRewritten ==
    \A i \in Running : \A d \in Produced(i) :
        /\ d.line \in 1..pos[i]
        /\ d.ts = TIMESTAMP
        /\ FieldKept(stdin[i][d.line].ip_src, d.ip_src)
        /\ FieldKept(stdin[i][d.line].ip_dst, d.ip_dst)

\* pseudonymization is on and a record with ip_src but no ip_dst was accepted by a target
C19_Witness ==
    /\ PSEUDONYMIZE
    /\ \E i \in Running : \E p \in 1..Len(AllPosts(i)) :
          /\ AllPosts(i)[p].status = 200
          /\ \E q \in 1..Len(AllPosts(i)[p].body) :
                /\ AllPosts(i)[p].body[q].t = "doc"
                /\ AllPosts(i)[p].body[q].ip_src.k = "hashIPv4Address"
                /\ AllPosts(i)[p].body[q].ip_dst = Absent

-----------------------------------------------------------------------------
(* Claim about the start-time stamp, checked under SpecClock *)

\* C20: the index name and @timestamp are fixed at process start: all bulk
\* requests of a run go to the index of its existence check, and all its
\* documents carry one and the same @timestamp, also those of records read
\* after the clock has moved on, into a later day.
C20_StampFixedAtStart ==
    \A i \in Running :
        /\ \A d, e \in Produced(i) : d.ts = e.ts
        /\ \A d \in Produced(i) : d.ts <= seen[i][d.line]
        /\ \A p \in 1..Len(reqs) :
              (reqs[p].by = i /\ reqs[p].m = "POST") =>
                  \E q \in 1..(p - 1) :
                      /\ reqs[q].by = i /\ reqs[q].m = "HEAD"
                      /\ reqs[q].idx = reqs[p].idx

\* a record read on the start day and a record read on a later day were sent
\* to the store, which accepted them
C20_Witness ==
    \E i \in Running : \E p, q \in 1..Len(AllPosts(i)) :
        /\ AllPosts(i)[p].status = 200 /\ AllPosts(i)[q].status = 200
        /\ \E d \in 1..Len(AllPosts(i)[p].body) : \E e \in 1..Len(AllPosts(i)[q].body) :
              /\ AllPosts(i)[p].body[d].t = "doc" /\ AllPosts(i)[q].body[e].t = "doc"
              /\ StrfDay(seen[i][AllPosts(i)[p].body[d].line]) = StrfDay(now)
              /\ StrfDay(seen[i][AllPosts(i)[q].body[e].line]) > StrfDay(now)

====
